---- MODULE Spec2Model ----
(***************************************************************************)
(* Model of the navigation engine of weboob.tools.browser.browser          *)
(* (StandardBrowser / BaseBrowser) driven by a site browser that declares  *)
(* PAGES, is_logged and login the way CreditDuNordBrowser does.            *)
(*                                                                         *)
(* The Python call stack is explicit: `stack` is a sequence of frames, the *)
(* last one being the running function; `exc` is the exception that is     *)
(* being raised through the stack ("none" when there is none).  A URL is a *)
(* sequence of path tokens, a PAGES key is a sequence of alternatives      *)
(* (the top-level `|` of the regular expression), each a sequence of       *)
(* tokens where ".*" matches any run of tokens.                            *)
(***************************************************************************)
EXTENDS Integers, Sequences, FiniteSets, TLC

VARIABLES
    order,        \* iteration order of the PAGES dict (a permutation of its bindings)
    password,     \* self.password
    page,         \* self.page
    stack,        \* call stack, innermost frame last
    exc,          \* exception being raised, "none" otherwise
    ret,          \* value returned by the last openurl / readurl
    result,       \* what the caller of the last operation observed
    requests,     \* network requests made during the current operation
    httpErrs,     \* ... of which failed with a transient transport error
    stateErrs,    \* ... of which failed with mechanize.BrowserStateError
    hookRetries,  \* BrowserRetry raised by on_loaded during the current operation
    loginCalls,   \* login() invocations during the current operation
    reissues,     \* navigations re-issued by the BrowserRetry handler of location
    last,         \* outcome of the last network request of the current operation
    authCalled,   \* is_logged() or login() was called during the current operation
    cookie        \* self._cookie: None without a persistent store, else whether
                  \* save() was called on it during the current operation

vars == <<order, password, page, stack, exc, ret, result, requests, httpErrs,
          stateErrs, hookRetries, loginCalls, reissues, last, authCalled, cookie>>

hist == <<requests, httpErrs, stateErrs, hookRetries, loginCalls, reissues, last, authCalled, cookie>>

(* The parts of the core that are checked by specifications of their own:  *)
(* they stay as they are while the navigation engine runs, and the engine  *)
(* stays as it is while they run.                                          *)
VARIABLES
    pattern,      \* a key of PAGES, as _change_location compiles it
    geturl,       \* result.geturl()
    matchObj,     \* regexp.match(result.geturl()): "match" or "None"
    lockOwner,    \* the thread that holds self.lock, 0 when it is free
    lockCount,    \* how many times its owner acquired self.lock
    tpc,          \* where each thread is
    tmode,        \* how each thread calls the browser: "with" the lock or "direct"
    pageBy,       \* the thread whose navigation assigned self.page last, 0 at first
    combinator,   \* a filter of filters.py: its class and what it was constructed with
    item,         \* what the filter is applied to
    results,      \* what its successive applications gave, in order
    tries,        \* the `tries` of banquepopulaire's retry(exc_check, tries)
    produced,     \* the sequence that the decorated function always produces
    calls,        \* how many times the wrapper called the decorated function
    recalls,      \* how many times iter_retry called it again
    remaining,    \* the `i` of the wrapper's loop, then iter_retry.remaining
    it,           \* iter_retry.it: how many items it has yielded, -1 for None
    items,        \* iter_retry.items
    received,     \* what the consumer of the iterator received, in order
    rpc,          \* where the wrapper, the iterator and its consumer are
    consistent,   \* whether every call of the function produces `produced`
    current,      \* the sequence that the present iterator yields
    events        \* the exceptions that the function and its iterators raised

VARIABLES
    no_login,     \* BanquePopulaire.no_login
    nlstack,      \* the calls of no_need_login wrappers in progress, outermost first
    finished,     \* the wrapped call that ended last: no_login before and after it
    validation_id,          \* BanquePopulaire.validation_id, 0 for None
    mfa_validation_data,    \* BanquePopulaire.mfa_validation_data, 0 for None
    authentification_data,  \* the attribute that handle_2fa_otp assigns
    nlogin,       \* how many authentications init_login started
    rejected,     \* the validations that the site answered with 104, 105 or 106
    submitted,    \* what handle_2fa_otp sent last
    otpResult     \* how init_login or handle_2fa_otp ended last

VARIABLES
    faultCap      \* the weight of the faults explored in one operation of the engine

matchVars == <<pattern, geturl, matchObj>>
lockVars == <<lockOwner, lockCount, tpc, tmode, pageBy>>
filterVars == <<combinator, item, results>>
retryVars == <<tries, produced, calls, recalls, remaining, it, items, received, rpc,
               consistent, current, events>>
noLoginVars == <<no_login, nlstack, finished>>
otpVars == <<validation_id, mfa_validation_data, authentification_data, nlogin, rejected,
             submitted, otpResult>>
bpVars == <<noLoginVars, otpVars>>
lib == <<matchVars, lockVars, filterVars, retryVars, bpVars, faultCap>>

NoCall == [func |-> "none", before |-> 0, after |-> 0, how |-> "none"]
NoSubmit == [unit |-> 0, id |-> 0, type |-> "none"]
NoLoginOff == no_login = 0 /\ nlstack = <<>> /\ finished = NoCall
OtpOff ==
    /\ validation_id = 0 /\ mfa_validation_data = 0 /\ authentification_data = "unset"
    /\ nlogin = 0 /\ rejected = {} /\ submitted = NoSubmit /\ otpResult = "off"
BpOff == NoLoginOff /\ OtpOff
MatchOff == pattern = <<>> /\ geturl = <<>> /\ matchObj = "off"
LockOff == lockOwner = 0 /\ lockCount = 0 /\ tpc = <<>> /\ tmode = <<>> /\ pageBy = 0
FilterOff == combinator = "off" /\ item = "off" /\ results = <<>>
RetryOff ==
    /\ tries = 0 /\ produced = <<>> /\ calls = 0 /\ recalls = 0 /\ remaining = 0 /\ it = -1
    /\ items = <<>> /\ received = <<>> /\ rpc = "off"
    /\ consistent = TRUE /\ current = <<>> /\ events = <<>>

----------------------------------------------------------------------------
(* Bounds of the model *)

(* What the site and the network may do wrong during one operation: a     *)
(* transient transport error weighs 1, a BrowserRetry raised by an         *)
(* on_loaded hook 2, a mechanize.BrowserStateError 3.                      *)
MaxFaults == 4

----------------------------------------------------------------------------
(* URLs and the PAGES table *)

None == "None"
NoPage == [url |-> <<>>, cls |-> "None", groups |-> <<>>, loaded |-> 0, via |-> "none"]   \* self.page = None
NoRequest == [kind |-> "none", url |-> <<>>]
NoResult == [op |-> "none", outcome |-> "none", ret |-> None, if_fail |-> "raise"]

Root == <<"r">>            \* 'https://domain/'
Accounts == <<"v">>        \* '/vos-comptes/particuliers'
AccountsErr == <<"v", "e">> \* '/vos-comptes/particuliers?_pageLabel=page_erreur_connexion'
Auth == <<"s">>            \* '/saga/authentification', bound to no page

URLs == {Root, Accounts, AccountsErr, Auth}

Targets == {Accounts, AccountsErr}

(* The first three bindings of CreditDuNordBrowser.PAGES, in the order of  *)
(* their declaration; AccountsErr is matched by the second and the third. *)
PAGES == <<
    [key |-> << <<"r">> >>,        value |-> "LoginPage"],
    [key |-> << <<".*", "e">> >>,  value |-> "LoginPage"],
    [key |-> << <<"v", ".*">> >>,  value |-> "AccountsPage"] >>

Perms == {f \in [1..Len(PAGES) -> 1..Len(PAGES)] : \A i, j \in 1..Len(PAGES) : i # j => f[i] # f[j]}

(* Positions of url at which alt[i..] can stop when it starts after j tokens *)
RECURSIVE Ends(_, _, _, _)
Ends(alt, i, url, j) ==
    IF i > Len(alt) THEN {j}
    ELSE IF alt[i] = ".*"
         THEN UNION {Ends(alt, i + 1, url, k) : k \in j..Len(url)}
         ELSE IF j < Len(url) /\ url[j + 1] = alt[i]
              THEN Ends(alt, i + 1, url, j + 1)
              ELSE {}

(* re.compile('^%s$' % key).match(url): "^" binds to the first alternative  *)
(* and "$" to the last one; match() itself anchors every alternative at    *)
(* the start of the URL.                                                   *)
KeyMatches(key, url) ==
    \E i \in 1..Len(key) :
        IF i = Len(key) THEN Len(url) \in Ends(key[i], 1, url, 0)
                        ELSE Ends(key[i], 1, url, 0) # {}

(* The for loop of _change_location over self.PAGES.items(): the index of   *)
(* the first binding, in the dict's iteration order, whose key matches; 0  *)
(* when the loop ends without a match.                                     *)
Dispatch(url) ==
    LET hits == {k \in 1..Len(PAGES) : KeyMatches(PAGES[order[k]].key, url)}
    IN IF hits = {} THEN 0
       ELSE order[CHOOSE k \in hits : \A m \in hits : k <= m]

----------------------------------------------------------------------------
(* Exceptions *)

IsA(e, cls) ==
    \/ e = cls
    \/ e = "BrowserBanned" /\ cls = "BrowserIncorrectPassword"
    \/ e \in {"BrowserHTTPNotFound", "BrowserHTTPError"} /\ cls = "BrowserUnavailable"

(* get_exception without a class of its own for the 404 code *)
GetExceptionHTTPError(e) == "BrowserHTTPError"

(* get_exception with the test on the 404 code lost *)
GetExceptionNotFound(e) == "BrowserHTTPNotFound"

(* StandardBrowser.get_exception: the class raised for a transport error *)
GetException(e) ==
    IF e = "HTTPError404" THEN "BrowserHTTPNotFound" ELSE "BrowserHTTPError"

TransportErrors == {"URLError", "HTTPError404"}

----------------------------------------------------------------------------
(* Frames *)

Frame(fn, pc, url, nl, n, role) ==
    [fn |-> fn, pc |-> pc, url |-> url, no_login |-> nl, n |-> n, role |-> role,
     if_fail |-> "raise"]

Top == stack[Len(stack)]
Pop == SubSeq(stack, 1, Len(stack) - 1)
SetPc(pc) == [stack EXCEPT ![Len(stack)].pc = pc]

Tries == 3

(* self.location(url, no_login=nl) through @retry(BrowserHTTPError, tries=3); *)
(* the URLs of the model are absolute, check_location leaves them as they are *)
LocationCall(base, url, nl, role) ==
    base \o << Frame("retry", "location", url, nl, Tries, role),
               Frame("location", "open", url, nl, 0, role) >>

(* self.openurl(url, if_fail=f) through @retry(BrowserHTTPError, tries=3) *)
OpenurlCall(base, url, f) ==
    base \o << [Frame("retry", "openurl", url, FALSE, Tries, "top") EXCEPT !.if_fail = f],
               [Frame("openurl", "open", url, FALSE, 0, "top") EXCEPT !.if_fail = f] >>

(* BaseBrowser.home *)
HomeCall(base) ==
    LocationCall(Append(base, Frame("home", "nav", Root, FALSE, 0, "home")), Root, FALSE, "home")

(* CreditDuNordBrowser.is_logged, evaluated on the page p that is current *)
IsLogged(p) == p # NoPage /\ p.cls # "LoginPage"

(* the login() of the site browser up to its navigation *)
LoginCall(base) ==
    LocationCall(Append(base, Frame("login", "nav", Auth, TRUE, 0, "login")), Auth, TRUE, "login")

(* the re-login condition without the test of the password *)
CallsIsLoggedAnyPassword(nl) == ~nl

(* `not no_login and self.password is not None`: when it holds, the         *)
(* condition of the re-login goes on to call self.is_logged()              *)
CallsIsLogged(nl) == ~nl /\ password # None

(* the condition of the re-login in _change_location *)
NeedLogin(p, nl) == CallsIsLogged(nl) /\ ~IsLogged(p)

(* location catching every exception of the engine as a retry signal *)
LocationCatchesAll(e) == e \in {"BrowserRetry", "BrowserIncorrectPassword", "BrowserBanned"}

(* `except BrowserRetry` of location *)
LocationCatchesRetry(e) == e = "BrowserRetry"

(* openurl ignoring if_fail *)
IfFailAlwaysRaises(f) == TRUE

(* `if if_fail == 'raise'` of openurl *)
IfFailRaises(f) == f = "raise"

(* _change_location raising when no page class is found *)
NotFoundRaisesUnavailable == "BrowserUnavailable"

(* what _change_location raises when no page class is found: nothing, it returns *)
NotFoundRaises == "none"

(* m.groups() of the match of url against the key of binding d: of the    *)
(* keys of PAGES only the third has a capturing group, the optional query *)
(* string, which holds what follows the path (nothing when the group did  *)
(* not take part in the match)                                            *)
Groups(d, url) ==
    IF d = 3 THEN << IF Len(url) > 1 THEN SubSeq(url, 2, Len(url)) ELSE <<>> >>
             ELSE <<>>

(* a page built without the groups of the match *)
NewPageNoGroups(res, d, role) ==
    [url |-> res, cls |-> PAGES[d].value, groups |-> <<>>, loaded |-> 0, via |-> role]

(* pageCls(self, document, result.geturl(), groups=page_groups, ...) *)
NewPage(res, d, role) ==
    [url |-> res, cls |-> PAGES[d].value, groups |-> Groups(d, res), loaded |-> 0, via |-> role]

(* `if self._cookie: self._cookie.save()` at the end of _change_location *)
CookieSave == IF cookie = None THEN None ELSE "saved"

(* a handler of the transport errors that leaves the current page alone *)
PageKeptAfterFailure(p) == p

(* `self.page = None` in the handlers of the transport errors *)
PageAfterFailure(p) == NoPage

(* the condition under which location re-issues the navigation on BrowserRetry *)
ShouldReissue(url) == page = NoPage \/ page.url # url

----------------------------------------------------------------------------
Init ==
    /\ order \in Perms
    /\ password \in {None, "pw"}
    /\ page = NoPage
    /\ \E get_home \in BOOLEAN :
          stack = << Frame("call", "__init__", Root, FALSE, 0, "top"),
                     Frame("__init__", IF get_home THEN "get_home" ELSE "no_home", Root, FALSE, 0, "top") >>
    /\ exc = "none"
    /\ ret = None
    /\ result = NoResult
    /\ requests = 0 /\ httpErrs = 0 /\ stateErrs = 0 /\ hookRetries = 0
    /\ loginCalls = 0 /\ reissues = 0 /\ last = NoRequest /\ authCalled = FALSE
    /\ cookie \in {None, "unsaved"}
    /\ faultCap = MaxFaults
    /\ MatchOff /\ LockOff /\ FilterOff /\ RetryOff /\ BpOff

(* the faults of the current operation, weighted *)
Faults == httpErrs + 2 * hookRetries + 3 * stateErrs

----------------------------------------------------------------------------
(* _change_location(result, no_login), called with the stack `base` of its *)
(* caller; res is result.geturl().  When the re-login is needed the frame  *)
(* of _change_location stays on the stack under the one of login().        *)
ChangeLocation(base, res, nl, role) ==
    LET d == Dispatch(res)
        p == NewPage(res, d, role)
    IN IF d = 0
       THEN /\ page' = NoPage
            /\ stack' = base
            /\ exc' = NotFoundRaises
            /\ UNCHANGED <<hookRetries, loginCalls, authCalled, cookie>>
       ELSE /\ authCalled' = (authCalled \/ CallsIsLogged(nl))
            /\ IF NeedLogin(p, nl)
               THEN /\ page' = p
                    /\ loginCalls' = loginCalls + 1
                    /\ stack' = LoginCall(Append(base, Frame("_change_location", "login", res, nl, 0, role)))
                    /\ exc' = "none"
                    /\ UNCHANGED <<hookRetries, cookie>>
               ELSE /\ page' = [p EXCEPT !.loaded = 1]
                    /\ stack' = base
                    /\ UNCHANGED loginCalls
                    /\ \/ exc' = "none" /\ UNCHANGED hookRetries /\ cookie' = CookieSave
                       \/ /\ Faults + 2 <= faultCap
                          /\ exc' = "BrowserRetry"
                          /\ hookRetries' = hookRetries + 1
                          /\ UNCHANGED cookie

(* login() returned to _change_location: raise BrowserRetry() *)
ChangeLocationAfterLogin ==
    /\ stack # <<>> /\ Top.fn = "_change_location" /\ Top.pc = "login" /\ exc = "none"
    /\ exc' = "BrowserRetry"
    /\ stack' = Pop
    /\ UNCHANGED <<lib, order, password, page, ret, result, hist>>

(* the end of login(): `if not self.is_logged(): raise BrowserIncorrectPassword()`; *)
(* a login procedure reports a locked account with the subclass BrowserBanned     *)
LoginCheck ==
    /\ stack # <<>> /\ Top.fn = "login" /\ Top.pc = "nav" /\ exc = "none"
    /\ authCalled' = TRUE
    /\ stack' = Pop
    /\ IF IsLogged(page) THEN exc' = "none"
                         ELSE exc' \in {"BrowserIncorrectPassword", "BrowserBanned"}
    /\ UNCHANGED <<lib, order, password, page, ret, result, requests, httpErrs, stateErrs,
                   hookRetries, loginCalls, reissues, last, cookie>>

----------------------------------------------------------------------------
(* mechanize.Browser.open / submit / follow_link answered with a response  *)
Answered(u) ==
    /\ requests' = requests + 1
    /\ last' = [kind |-> "ok", url |-> u]
    /\ UNCHANGED <<httpErrs, stateErrs>>

(* ... failed with a transport error (urllib2.URLError, HTTPError, BadStatusLine) *)
Failed(e) ==
    /\ e = "URLError" => Faults + 1 <= faultCap
    /\ requests' = requests + 1
    /\ httpErrs' = IF e = "URLError" THEN httpErrs + 1 ELSE httpErrs
    /\ last' = [kind |-> e, url |-> <<>>]
    /\ UNCHANGED stateErrs

(* ... failed with mechanize.BrowserStateError *)
StateFailed ==
    /\ Faults + 3 <= faultCap
    /\ requests' = requests + 1
    /\ stateErrs' = stateErrs + 1
    /\ last' = [kind |-> "BrowserStateError", url |-> <<>>]
    /\ UNCHANGED httpErrs

(* BaseBrowser.location: the try block *)
LocationOpen ==
    /\ stack # <<>> /\ Top.fn = "location" /\ Top.pc = "open" /\ exc = "none"
    /\ \/ \E u \in URLs :
             /\ Answered(u)
             /\ ChangeLocation(SetPc("changed"), u, Top.no_login, Top.role)
       \/ \E e \in TransportErrors :
             /\ Failed(e)
             /\ page' = PageAfterFailure(page)
             /\ exc' = GetException(e)
             /\ stack' = Pop
             /\ UNCHANGED <<hookRetries, loginCalls, authCalled, cookie>>
       \/ /\ StateFailed
          /\ stack' = HomeCall(SetPc("home"))
          /\ UNCHANGED <<page, exc, hookRetries, loginCalls, authCalled, cookie>>
    /\ UNCHANGED <<lib, order, password, ret, result, reissues>>

(* BaseBrowser.location: `except BrowserRetry` *)
LocationRetry ==
    /\ stack # <<>> /\ Top.fn = "location" /\ Top.pc = "changed"
    /\ exc # "none" /\ LocationCatchesRetry(exc)
    /\ exc' = "none"
    /\ IF ShouldReissue(Top.url)
       THEN /\ stack' = LocationCall(SetPc("reissued"), Top.url, TRUE, "retry")
            /\ reissues' = reissues + 1
       ELSE /\ stack' = Pop
            /\ UNCHANGED reissues
    /\ UNCHANGED <<lib, order, password, page, ret, result, requests, httpErrs, stateErrs,
                   hookRetries, loginCalls, last, authCalled, cookie>>

(* BaseBrowser.location: `except mechanize.BrowserStateError`, after home() *)
LocationAfterHome ==
    /\ stack # <<>> /\ Top.fn = "location" /\ Top.pc = "home" /\ exc = "none"
    /\ stack' = LocationCall(SetPc("relocated"), Top.url, Top.no_login, Top.role)
    /\ UNCHANGED <<lib, order, password, page, exc, ret, result, hist>>

(* a function returns to its caller: location, home, the retry wrapper *)
Return ==
    /\ stack # <<>> /\ exc = "none"
    /\ \/ Top.fn = "location" /\ Top.pc \in {"changed", "reissued", "relocated"}
       \/ Top.fn \in {"submit", "follow_link"} /\ Top.pc = "changed"
       \/ Top.fn = "home"
       \/ Top.fn = "retry"
    /\ stack' = Pop
    /\ UNCHANGED <<lib, order, password, page, exc, ret, result, hist>>

(* weboob.tools.decorators.retry(BrowserHTTPError, tries=3): call again *)
RetryCatches(f, e) == f.fn = "retry" /\ e = "BrowserHTTPError" /\ f.n > 1

RetryAgain ==
    /\ stack # <<>> /\ RetryCatches(Top, exc)
    /\ exc' = "none"
    /\ stack' = Append([stack EXCEPT ![Len(stack)].n = Top.n - 1],
                        [Frame(Top.pc, "open", Top.url, Top.no_login, 0, Top.role)
                            EXCEPT !.if_fail = Top.if_fail])
    /\ UNCHANGED <<lib, order, password, page, ret, result, hist>>

(* the except clauses that stop an exception in frame f *)
Catches(f, e) ==
    \/ RetryCatches(f, e)
    \/ f.fn = "location" /\ f.pc = "changed" /\ LocationCatchesRetry(e)
    \/ f.fn \in {"submit", "follow_link"} /\ f.pc = "changed" /\ e = "BrowserRetry"
    \/ f.fn = "__init__" /\ IsA(e, "BrowserUnavailable")
    \/ f.fn = "call"

(* an exception leaves a function that does not catch it *)
Propagate ==
    /\ stack # <<>> /\ exc # "none" /\ ~Catches(Top, exc)
    /\ stack' = Pop
    /\ UNCHANGED <<lib, order, password, page, exc, ret, result, hist>>

----------------------------------------------------------------------------
(* BaseBrowser.submit: the try block *)
SubmitOpen ==
    /\ stack # <<>> /\ Top.fn = "submit" /\ Top.pc = "open" /\ exc = "none"
    /\ \/ \E u \in URLs :
             /\ Answered(u)
             /\ ChangeLocation(SetPc("changed"), u, Top.no_login, Top.role)
       \/ \E e \in TransportErrors :
             /\ Failed(e)
             /\ page' = PageAfterFailure(page)
             /\ exc' = GetException(e)
             /\ stack' = Pop
             /\ UNCHANGED <<hookRetries, loginCalls, authCalled, cookie>>
       \/ /\ StateFailed
          /\ exc' = "BrowserUnavailable"
          /\ stack' = Pop
          /\ UNCHANGED <<page, hookRetries, loginCalls, authCalled, cookie>>
    /\ UNCHANGED <<lib, order, password, ret, result, reissues>>

(* BaseBrowser.submit: `except (mechanize.BrowserStateError, BrowserRetry)` *)
SubmitRetry ==
    /\ stack # <<>> /\ Top.fn = "submit" /\ Top.pc = "changed" /\ exc = "BrowserRetry"
    /\ exc' = "BrowserUnavailable"
    /\ stack' = Pop
    /\ UNCHANGED <<lib, order, password, page, ret, result, hist>>

(* BaseBrowser.follow_link: the try block *)
FollowLinkOpen ==
    /\ stack # <<>> /\ Top.fn = "follow_link" /\ Top.pc = "open" /\ exc = "none"
    /\ \/ \E u \in URLs :
             /\ Answered(u)
             /\ ChangeLocation(SetPc("changed"), u, FALSE, Top.role)
       \/ \E e \in TransportErrors :
             /\ Failed(e)
             /\ page' = PageAfterFailure(page)
             /\ exc' = GetException(e)
             /\ stack' = Pop
             /\ UNCHANGED <<hookRetries, loginCalls, authCalled, cookie>>
       \/ /\ StateFailed
          /\ stack' = HomeCall(SetPc("home"))
          /\ UNCHANGED <<page, exc, hookRetries, loginCalls, authCalled, cookie>>
    /\ UNCHANGED <<lib, order, password, ret, result, reissues>>

(* BaseBrowser.follow_link: `except (mechanize.BrowserStateError, BrowserRetry)`, *)
(* self.home() on BrowserRetry                                                  *)
FollowLinkRetry ==
    /\ stack # <<>> /\ Top.fn = "follow_link" /\ Top.pc = "changed" /\ exc = "BrowserRetry"
    /\ exc' = "none"
    /\ stack' = HomeCall(SetPc("home"))
    /\ UNCHANGED <<lib, order, password, page, ret, result, hist>>

(* BaseBrowser.follow_link: `raise BrowserUnavailable(e)` after home() *)
FollowLinkAfterHome ==
    /\ stack # <<>> /\ Top.fn = "follow_link" /\ Top.pc = "home" /\ exc = "none"
    /\ exc' = "BrowserUnavailable"
    /\ stack' = Pop
    /\ UNCHANGED <<lib, order, password, page, ret, result, hist>>

(* StandardBrowser.openurl: the try block; open_novisit leaves self.page alone *)
OpenurlOpen ==
    /\ stack # <<>> /\ Top.fn = "openurl" /\ Top.pc = "open" /\ exc = "none"
    /\ \/ \E u \in URLs :
             /\ Answered(u)
             /\ ret' = "response"
             /\ stack' = Pop
             /\ UNCHANGED exc
       \/ \E e \in TransportErrors :
             /\ Failed(e)
             /\ stack' = Pop
             /\ IF IfFailRaises(Top.if_fail)
                THEN exc' = GetException(e) /\ UNCHANGED ret
                ELSE ret' = None /\ UNCHANGED exc
       \/ /\ StateFailed
          /\ stack' = HomeCall(SetPc("home"))
          /\ UNCHANGED <<exc, ret>>
    /\ UNCHANGED <<lib, order, password, page, result, hookRetries, loginCalls, reissues, authCalled, cookie>>

(* StandardBrowser.openurl: `return mechanize.Browser.open(self, *args, **kwargs)` *)
(* in the handler of BrowserStateError, after home(); nothing catches there       *)
OpenurlAfterHome ==
    /\ stack # <<>> /\ Top.fn = "openurl" /\ Top.pc = "home" /\ exc = "none"
    /\ stack' = Pop
    /\ \/ \E u \in URLs : Answered(u) /\ ret' = "response" /\ UNCHANGED exc
       \/ \E e \in TransportErrors : Failed(e) /\ exc' = e /\ UNCHANGED ret
       \/ StateFailed /\ exc' = "BrowserStateError" /\ UNCHANGED ret
    /\ UNCHANGED <<lib, order, password, page, result, hookRetries, loginCalls, reissues, authCalled, cookie>>

(* StandardBrowser.readurl: `if result: return result.read() else: return None` *)
ReadurlDone ==
    /\ stack # <<>> /\ Top.fn = "readurl" /\ exc = "none"
    /\ ret' = IF ret = "response" THEN "data" ELSE None
    /\ stack' = Pop
    /\ UNCHANGED <<lib, order, password, page, exc, result, hist>>

----------------------------------------------------------------------------
(* BaseBrowser.__init__: `if self.password and get_home: self.home()` *)
Construct ==
    /\ stack # <<>> /\ Top.fn = "__init__" /\ Top.pc \in {"get_home", "no_home"} /\ exc = "none"
    /\ IF password # None /\ Top.pc = "get_home"
       THEN stack' = HomeCall(SetPc("home"))
       ELSE stack' = Pop
    /\ UNCHANGED <<lib, order, password, page, exc, ret, result, hist>>

(* BaseBrowser.__init__: home() returned, or `except BrowserUnavailable: pass` *)
ConstructDone ==
    /\ stack # <<>> /\ Top.fn = "__init__" /\ Top.pc = "home"
    /\ exc = "none" \/ IsA(exc, "BrowserUnavailable")
    /\ exc' = "none"
    /\ stack' = Pop
    /\ UNCHANGED <<lib, order, password, page, ret, result, hist>>

(* the caller of the operation gets the control back *)
Complete ==
    /\ stack # <<>> /\ Top.fn = "call"
    /\ result' = [op |-> Top.pc, outcome |-> IF exc = "none" THEN "ok" ELSE exc, ret |-> ret,
                  if_fail |-> Top.if_fail]
    /\ stack' = <<>>
    /\ exc' = "none"
    /\ UNCHANGED <<lib, order, password, page, ret, hist>>

(* a page that was current before the operation started *)
Old(p) == IF p = NoPage THEN p ELSE [p EXCEPT !.via = "old"]

Begin(op) ==
    /\ stack = <<>>
    /\ page' = Old(page)
    /\ exc' = "none" /\ ret' = None /\ result' = NoResult
    /\ requests' = 0 /\ httpErrs' = 0 /\ stateErrs' = 0 /\ hookRetries' = 0
    /\ loginCalls' = 0 /\ reissues' = 0 /\ last' = NoRequest /\ authCalled' = FALSE
    /\ cookie' = IF cookie = None THEN None ELSE "unsaved"
    /\ UNCHANGED <<lib, order, password>>

(* the caller calls browser.location(u) or browser.location(u, no_login=True) *)
CallLocation ==
    \E u \in Targets, nl \in BOOLEAN :
        /\ Begin("location")
        /\ stack' = LocationCall(<<Frame("call", "location", u, nl, 0, "top")>>, u, nl, "top")

(* the caller calls browser.submit() or browser.submit(nologin=True) *)
CallSubmit ==
    \E nl \in BOOLEAN :
        /\ Begin("submit")
        /\ stack' = << Frame("call", "submit", <<>>, nl, 0, "top"),
                       Frame("submit", "open", <<>>, nl, 0, "top") >>

(* the caller calls browser.follow_link(...) *)
CallFollowLink ==
    /\ Begin("follow_link")
    /\ stack' = << Frame("call", "follow_link", <<>>, FALSE, 0, "top"),
                   Frame("follow_link", "open", <<>>, FALSE, 0, "top") >>

(* the caller calls browser.openurl(u) or browser.openurl(u, if_fail=None) *)
CallOpenurl ==
    \E f \in {"raise", None} :
        /\ Begin("openurl")
        /\ stack' = OpenurlCall(<< [Frame("call", "openurl", Auth, FALSE, 0, "top") EXCEPT !.if_fail = f] >>,
                                Auth, f)

(* the caller calls browser.readurl(u): if_fail defaults to None *)
CallReadurl ==
    /\ Begin("readurl")
    /\ stack' = OpenurlCall(<< [Frame("call", "readurl", Auth, FALSE, 0, "top") EXCEPT !.if_fail = None],
                               Frame("readurl", "open", Auth, FALSE, 0, "top") >>, Auth, None)

Next ==
    \/ Construct \/ ConstructDone \/ Complete
    \/ CallLocation \/ CallSubmit \/ CallFollowLink \/ CallOpenurl \/ CallReadurl
    \/ LocationOpen \/ LocationRetry \/ LocationAfterHome
    \/ SubmitOpen \/ SubmitRetry
    \/ FollowLinkOpen \/ FollowLinkRetry \/ FollowLinkAfterHome
    \/ OpenurlOpen \/ OpenurlAfterHome \/ ReadurlDone
    \/ ChangeLocationAfterLogin \/ LoginCheck
    \/ Return \/ RetryAgain \/ Propagate

Spec == Init /\ [][Next]_vars

TypeOK ==
    /\ page = NoPage \/ page.url \in URLs
    /\ exc \in {"none", "BrowserRetry", "BrowserHTTPError", "BrowserHTTPNotFound",
                "BrowserUnavailable", "BrowserIncorrectPassword", "BrowserBanned",
                "URLError", "HTTPError404", "BrowserStateError"}
    /\ Len(stack) <= 40

----------------------------------------------------------------------------
(* location on a session without a password, with a transport that may    *)
(* raise mechanize.BrowserStateError more than once in a call.             *)

MaxStateFaults == 6

StateErrorInit ==
    /\ order = [i \in 1..Len(PAGES) |-> i] /\ password = None /\ page = NoPage
    /\ stack = <<>> /\ exc = "none" /\ ret = None /\ result = NoResult
    /\ requests = 0 /\ httpErrs = 0 /\ stateErrs = 0 /\ hookRetries = 0
    /\ loginCalls = 0 /\ reissues = 0 /\ last = NoRequest /\ authCalled = FALSE
    /\ cookie = None
    /\ faultCap = MaxStateFaults
    /\ MatchOff /\ LockOff /\ FilterOff /\ RetryOff /\ BpOff

StateErrorNext ==
    \/ CallLocation \/ LocationOpen \/ LocationRetry \/ LocationAfterHome
    \/ Return \/ RetryAgain \/ Propagate \/ Complete

SpecStateError == StateErrorInit /\ [][StateErrorNext]_vars

----------------------------------------------------------------------------
(* The navigation engine at rest, for the specifications of the other parts *)
BrowserOff ==
    /\ order = [i \in 1..Len(PAGES) |-> i] /\ password = None /\ page = NoPage
    /\ stack = <<>> /\ exc = "none" /\ ret = None /\ result = NoResult
    /\ requests = 0 /\ httpErrs = 0 /\ stateErrs = 0 /\ hookRetries = 0
    /\ loginCalls = 0 /\ reissues = 0 /\ last = NoRequest /\ authCalled = FALSE
    /\ cookie = None
    /\ faultCap = 0

----------------------------------------------------------------------------
(* The match of one key of PAGES against one URL, for any key a site may    *)
(* register: up to MaxAlts alternatives of up to MaxAltLen tokens.         *)

MaxUrlLen == 3
MaxAltLen == 2
MaxAlts == 2

SeqsUpTo(S, n) == UNION {[1..k -> S] : k \in 0..n}

UrlTokens == {"a", "b"}
Alternatives == SeqsUpTo(UrlTokens \cup {".*"}, MaxAltLen) \ {<<>>}
Keys == SeqsUpTo(Alternatives, MaxAlts) \ {<<>>}

MatchInit ==
    /\ pattern \in Keys
    /\ geturl \in SeqsUpTo(UrlTokens, MaxUrlLen)
    /\ matchObj = "untried"
    /\ BrowserOff /\ LockOff /\ FilterOff /\ RetryOff /\ BpOff

(* regexp = re.compile('^%s$' % key); m = regexp.match(result.geturl()) *)
Match ==
    /\ matchObj = "untried"
    /\ matchObj' = IF KeyMatches(pattern, geturl) THEN "match" ELSE "None"
    /\ UNCHANGED <<pattern, geturl, vars, faultCap, lockVars, filterVars, retryVars, bpVars>>

MatchNext == Match

SpecMatch == MatchInit /\ [][MatchNext]_<<vars, lib>>

(* some alternative of the key matches the URL from its first token to its *)
(* last one                                                                *)
WholeMatch(key, url) == \E i \in 1..Len(key) : Len(url) \in Ends(key[i], 1, url, 0)

----------------------------------------------------------------------------
(* Threads that navigate on one browser.  A thread of mode "with" calls    *)
(* the browser the way GenericNewspaperBackend.get_thread does, inside     *)
(* `with self.browser:`; a thread of mode "direct" calls a method of the   *)
(* browser that navigates, such as CreditDuNordBrowser.get_accounts_list,  *)
(* without entering the browser.  A navigation is a request ("open"), the  *)
(* assignment of self.page by _change_location ("built": on_loaded and the *)
(* caller then use self.page) and its return.                              *)

NThreads == 2
MaxDepth == 2

Threads == 1..NThreads

LockInit ==
    /\ lockOwner = 0 /\ lockCount = 0 /\ pageBy = 0
    /\ tpc = [t \in Threads |-> "idle"]
    /\ tmode \in [Threads -> {"with", "direct"}]
    /\ BrowserOff /\ MatchOff /\ FilterOff /\ RetryOff /\ BpOff

(* an RLock that lets every thread in *)
AcquireNeverBlocks(t) == TRUE

(* self.lock.acquire() of an RLock returns when the lock is free or owned  *)
(* by the calling thread                                                   *)
CanAcquire(t) == lockOwner \in {0, t}

(* StandardBrowser.__enter__ *)
Enter(t) ==
    /\ tmode[t] = "with" /\ tpc[t] \in {"idle", "entered"}
    /\ CanAcquire(t) /\ lockCount < MaxDepth
    /\ lockOwner' = t /\ lockCount' = lockCount + 1
    /\ tpc' = [tpc EXCEPT ![t] = "entered"]
    /\ UNCHANGED <<tmode, pageBy, vars, faultCap, matchVars, filterVars, retryVars, bpVars>>

(* StandardBrowser.__exit__ *)
Exit(t) ==
    /\ tmode[t] = "with" /\ tpc[t] = "entered" /\ lockOwner = t
    /\ lockCount' = lockCount - 1
    /\ lockOwner' = IF lockCount = 1 THEN 0 ELSE t
    /\ tpc' = [tpc EXCEPT ![t] = IF lockCount = 1 THEN "idle" ELSE "entered"]
    /\ UNCHANGED <<tmode, pageBy, vars, faultCap, matchVars, filterVars, retryVars, bpVars>>

(* the thread calls location, submit or follow_link: none of them touches  *)
(* self.lock                                                               *)
Navigate(t) ==
    /\ \/ tmode[t] = "with" /\ tpc[t] = "entered"
       \/ tmode[t] = "direct" /\ tpc[t] = "idle"
    /\ tpc' = [tpc EXCEPT ![t] = "open"]
    /\ UNCHANGED <<lockOwner, lockCount, tmode, pageBy, vars, faultCap, matchVars, filterVars, retryVars, bpVars>>

(* _change_location: self.page = pageCls(...) *)
AssignPage(t) ==
    /\ tpc[t] = "open"
    /\ pageBy' = t
    /\ tpc' = [tpc EXCEPT ![t] = "built"]
    /\ UNCHANGED <<lockOwner, lockCount, tmode, vars, faultCap, matchVars, filterVars, retryVars, bpVars>>

(* self.page.on_loaded() and the return of the navigation *)
NavigationReturn(t) ==
    /\ tpc[t] = "built"
    /\ tpc' = [tpc EXCEPT ![t] = IF tmode[t] = "with" THEN "entered" ELSE "idle"]
    /\ UNCHANGED <<lockOwner, lockCount, tmode, pageBy, vars, faultCap, matchVars, filterVars, retryVars, bpVars>>

LockNext ==
    \E t \in Threads :
        \/ Enter(t) \/ Exit(t) \/ Navigate(t) \/ AssignPage(t) \/ NavigationReturn(t)

SpecLock == LockInit /\ [][LockNext]_<<vars, lib>>

(* the thread is inside location, submit or follow_link *)
Navigating(t) == tpc[t] \in {"open", "built"}

----------------------------------------------------------------------------
(* The filters of weboob.tools.browser2.filters.  A value is written with  *)
(* its type; what a call gives is a value returned or an exception raised. *)

Val(type, v) == [type |-> type, v |-> v]
NoDefault == Val("_NO_DEFAULT", "")
Returns(v) == [kind |-> "return", value |-> v]
Raises(e) == [kind |-> "raise", value |-> Val("exception", e)]

RestForFilters == BrowserOff /\ MatchOff /\ LockOff /\ RetryOff /\ BpOff

(* `if self.default is not _NO_DEFAULT: return self.default`, else raise *)
DefaultOr(c, e) == IF c.default # NoDefault THEN Returns(c.default) ELSE Raises(e)

----------------------------------------------------------------------------
(* Each filter constructed with or without a default and applied to an     *)
(* input in which it finds something or nothing: no column of that name,   *)
(* an empty node list, a text without a match, an unmapped key, an empty   *)
(* value for the dates.                                                    *)

Combinators == {"TableCell", "CleanText", "CleanDecimal", "Attr", "Link", "Regexp",
                "Map", "DateTime", "Date", "Time", "Duration"}

Defaults == {Val("int", "0"), Val("NotAvailable", "")}

DefaultInit ==
    /\ combinator \in [cls : Combinators, default : {NoDefault} \cup Defaults, built : {FALSE}]
    /\ item \in {"nothing", "something"}
    /\ results = <<>>
    /\ RestForFilters

(* the constructors that have a `default` parameter *)
AcceptsDefault(cls) == cls \notin {"CleanText", "DateTime", "Date"}

(* the call of the constructor: a keyword it does not know is a TypeError *)
ConstructFilter ==
    /\ results = <<>> /\ ~combinator.built
    /\ IF combinator.default # NoDefault /\ ~AcceptsDefault(combinator.cls)
       THEN results' = <<Raises("TypeError")>> /\ UNCHANGED combinator
       ELSE combinator' = [combinator EXCEPT !.built = TRUE] /\ UNCHANGED results
    /\ UNCHANGED <<item, vars, faultCap, matchVars, lockVars, retryVars, bpVars>>

(* Decimal(self.default) *)
ToDecimal(d) == IF d.type = "int" THEN Returns(Val("Decimal", d.v)) ELSE Raises("TypeError")

(* filter(select(selector, item)) when nothing is found *)
OnNothing(c) ==
    CASE c.cls = "TableCell" -> DefaultOr(c, "KeyError")
      [] c.cls = "CleanText" -> Returns(Val("str", ""))
      [] c.cls = "CleanDecimal" ->
            IF c.default # NoDefault THEN ToDecimal(c.default) ELSE Raises("InvalidOperation")
      [] c.cls \in {"Attr", "Link"} -> DefaultOr(c, "ValueError")
      [] c.cls \in {"Regexp", "Map"} -> DefaultOr(c, "KeyError")
      [] c.cls \in {"DateTime", "Date"} -> Returns(Val("NoneType", ""))
      [] c.cls \in {"Time", "Duration"} -> DefaultOr(c, "ValueError")

(* combinator(item) *)
CallFilter ==
    /\ results = <<>> /\ combinator.built
    /\ results' = << IF item = "nothing" THEN OnNothing(combinator)
                                        ELSE Returns(Val(combinator.cls, "value")) >>
    /\ UNCHANGED <<combinator, item, vars, faultCap, matchVars, lockVars, retryVars, bpVars>>

DefaultNext == ConstructFilter \/ CallFilter

SpecDefault == DefaultInit /\ [][DefaultNext]_<<vars, lib>>

----------------------------------------------------------------------------
(* CleanText.filter applied to a text, then to what it returned.  A text   *)
(* is a sequence of characters, `symbols` the characters to delete.        *)

MaxTextLen == 4

Chars == {"a", "x", " ", "\t"}
Whitespace == {" ", "\t"}

CleanInit ==
    /\ combinator \in [cls : {"CleanText"}, symbols : SeqsUpTo({"x", "a"}, 1)]
    /\ item \in SeqsUpTo(Chars, MaxTextLen)
    /\ results = <<>>
    /\ RestForFilters

RECURSIVE LStrip(_)
LStrip(txt) ==
    IF txt # <<>> /\ Head(txt) \in Whitespace THEN LStrip(Tail(txt)) ELSE txt

RECURSIVE RStrip(_)
RStrip(txt) ==
    IF txt # <<>> /\ txt[Len(txt)] \in Whitespace THEN RStrip(SubSeq(txt, 1, Len(txt) - 1)) ELSE txt

(* re.sub(u'[\\s\xa0\t]+', u' ', txt) *)
RECURSIVE Collapse(_)
Collapse(txt) ==
    IF txt = <<>> THEN <<>>
    ELSE IF Head(txt) \in Whitespace THEN <<" ">> \o Collapse(LStrip(txt))
         ELSE <<Head(txt)>> \o Collapse(Tail(txt))

(* CleanText.clean of a string *)
Clean(txt) == LStrip(RStrip(Collapse(txt)))

(* CleanText.remove: txt.replace(symbol, '') for each symbol in turn *)
RECURSIVE Remove(_, _)
Remove(txt, symbols) ==
    IF symbols = <<>> THEN txt
    ELSE Remove(SelectSeq(txt, LAMBDA ch : ch # Head(symbols)), Tail(symbols))

(* CleanText.filter of a string *)
CleanTextFilter(txt, symbols) == Remove(Clean(txt), symbols)

(* the filter applied to the text, then to its own output *)
CallCleanText ==
    /\ Len(results) < 2
    /\ results' = Append(results,
                         CleanTextFilter(IF results = <<>> THEN item ELSE results[1],
                                         combinator.symbols))
    /\ UNCHANGED <<combinator, item, vars, faultCap, matchVars, lockVars, retryVars, bpVars>>

CleanNext == CallCleanText

SpecClean == CleanInit /\ [][CleanNext]_<<vars, lib>>

----------------------------------------------------------------------------
(* TableCell with its names and default, applied to a row of a table whose *)
(* header registered some of the column names.  item.cols is the map of   *)
(* the registered names to column numbers (-1 for a name that is not      *)
(* registered), item.row the cells of the row.                             *)

MaxNames == 2

ColNames == {"date", "label", "amount"}
Row == <<"td1", "td2">>

TableInit ==
    /\ combinator \in [cls : {"TableCell"}, names : SeqsUpTo(ColNames, MaxNames),
                       default : {NoDefault, Val("NotAvailable", "")}]
    /\ item \in [cols : [ColNames -> -1..(Len(Row) - 1)], row : {Row}]
    /\ results = <<>>
    /\ RestForFilters

(* item.parent.get_colnum(name): the number of the column registered for   *)
(* the name, None (-1) when there is none                                  *)
GetColnum(x, name) == x.cols[name]

(* `if idx:` *)
IdxIsTrue(idx) == idx > 0

(* `if idx is not None:` *)
IdxIsNotNone(idx) == idx # -1

(* the for loop of TableCell.__call__ from the k-th name on *)
RECURSIVE TableCellFrom(_, _, _)
TableCellFrom(c, x, k) ==
    IF k > Len(c.names) THEN DefaultOr(c, "KeyError")
    ELSE LET idx == GetColnum(x, c.names[k])
         IN IF IdxIsNotNone(idx) THEN Returns(Val("td", x.row[idx + 1]))
                                 ELSE TableCellFrom(c, x, k + 1)

(* TableCell.__call__ *)
CallTableCell ==
    /\ results = <<>>
    /\ results' = <<TableCellFrom(combinator, item, 1)>>
    /\ UNCHANGED <<combinator, item, vars, faultCap, matchVars, lockVars, retryVars, bpVars>>

TableNext == CallTableCell

SpecTable == TableInit /\ [][TableNext]_<<vars, lib>>

(* the candidate names, by position, that the header registered *)
RegisteredAt(c, x) == {k \in 1..Len(c.names) : x.cols[c.names[k]] # -1}

----------------------------------------------------------------------------
(* CleanDecimal.filter applied to a text.  A Decimal is written the way    *)
(* the decimal module keeps it: a sign, the digits of its coefficient      *)
(* without leading zeros, and an exponent; nothing in it is rounded.       *)

MaxFracDigits == 6

Digits == {"0", "7"}
AllDigits == {"0", "1", "2", "3", "4", "5", "6", "7", "8", "9"}

Dec(sign, digits, exp) == [sign |-> sign, digits |-> digits, exp |-> exp]

(* a number as it is written in continental format: groups of digits       *)
(* separated by ".", then "," and the fractional digits                    *)
Written ==
    [neg : BOOLEAN,
     groups : {<<g>> : g \in SeqsUpTo(Digits, 2) \ {<<>>}}
              \cup {<<g, h>> : g \in SeqsUpTo(Digits, 2) \ {<<>>}, h \in [1..3 -> Digits]},
     frac : SeqsUpTo(Digits, MaxFracDigits)]
    \cup {[neg |-> FALSE, groups |-> << <<"1">>, <<"2", "3", "4">> >>, frac |-> <<"5", "6">>],
          [neg |-> TRUE, groups |-> << <<"1", "2">> >>, frac |-> <<"0", "0">>]}

NoWritten == [neg |-> FALSE, groups |-> <<>>, frac |-> <<>>]

RECURSIVE JoinGroups(_, _)
JoinGroups(groups, sep) ==
    IF Len(groups) = 1 THEN groups[1]
    ELSE groups[1] \o sep \o JoinGroups(Tail(groups), sep)

(* the text of a written number *)
Format(w) ==
    (IF w.neg THEN <<"-">> ELSE <<>>) \o JoinGroups(w.groups, <<".">>)
        \o (IF w.frac = <<>> THEN <<>> ELSE <<",">> \o w.frac)

(* what may follow the number in the text: nothing, or a space and a unit *)
Units == {<<>>, <<" ", "x">>}

DecimalInit ==
    /\ combinator \in [cls : {"CleanDecimal"}, replace_dots : BOOLEAN,
                       default : {NoDefault, Val("int", "0")}]
    /\ item \in {[text |-> Format(w) \o u, written |-> w] : w \in Written, u \in Units}
            \cup {[text |-> t, written |-> NoWritten] : t \in SeqsUpTo({"7", ",", "-", "x"}, 3)}
    /\ results = <<>>
    /\ RestForFilters

(* text.replace(',', '.').replace('.', '') *)
ReplaceDotsSwapped(text) ==
    SelectSeq([i \in 1..Len(text) |-> IF text[i] = "," THEN "." ELSE text[i]],
              LAMBDA ch : ch # ".")

(* text.replace('.', '').replace(',', '.') *)
ReplaceDots(text) ==
    LET t == SelectSeq(text, LAMBDA ch : ch # ".")
    IN [i \in 1..Len(t) |-> IF t[i] = "," THEN "." ELSE t[i]]

(* re.sub(ur'[^\d\-\.]', '', text) *)
KeepNumeric(text) == SelectSeq(text, LAMBDA ch : ch \in AllDigits \cup {"-", "."})

RECURSIVE StripZeros(_)
StripZeros(ds) ==
    IF Len(ds) > 1 /\ Head(ds) = "0" THEN StripZeros(Tail(ds))
    ELSE IF ds = <<>> THEN <<"0">> ELSE ds

(* Decimal(s) for a string of digits, "-" and ".": an optional sign, then  *)
(* digits with at most one point among them; anything else is an           *)
(* InvalidOperation                                                        *)
ParseDecimal(s) ==
    LET neg == s # <<>> /\ Head(s) = "-"
        body == IF neg THEN Tail(s) ELSE s
        points == {i \in 1..Len(body) : body[i] = "."}
        ds == SelectSeq(body, LAMBDA ch : ch \in AllDigits)
    IN IF Cardinality(points) > 1 \/ ds = <<>> \/ \E i \in 1..Len(body) : body[i] = "-"
       THEN Raises("InvalidOperation")
       ELSE Returns(Dec(IF neg THEN 1 ELSE 0, StripZeros(ds),
                        IF points = {} THEN 0
                        ELSE (CHOOSE i \in points : TRUE) - Len(body)))

(* CleanDecimal.filter *)
CleanDecimalFilter(c, text) ==
    LET cleaned == CleanTextFilter(text, <<>>)
        dotted == IF c.replace_dots THEN ReplaceDots(cleaned) ELSE cleaned
        parsed == ParseDecimal(KeepNumeric(dotted))
    IN IF parsed.kind = "return" THEN parsed
       ELSE IF c.default # NoDefault THEN Returns(Dec(0, <<c.default.v>>, 0))
            ELSE Raises("InvalidOperation")

CallCleanDecimal ==
    /\ results = <<>>
    /\ results' = <<CleanDecimalFilter(combinator, item.text)>>
    /\ UNCHANGED <<combinator, item, vars, faultCap, matchVars, lockVars, retryVars, bpVars>>

DecimalNext == CallCleanDecimal

SpecDecimal == DecimalInit /\ [][DecimalNext]_<<vars, lib>>

(* the value that a written number denotes *)
RECURSIVE Concat(_)
Concat(groups) == IF groups = <<>> THEN <<>> ELSE Head(groups) \o Concat(Tail(groups))

WrittenValue(w) ==
    Dec(IF w.neg THEN 1 ELSE 0, StripZeros(Concat(w.groups) \o w.frac), 0 - Len(w.frac))

(* the text holds no digit at all *)
NoDigit(text) == \A i \in 1..Len(text) : text[i] \notin AllDigits

----------------------------------------------------------------------------
(* banquepopulaire's retry(exc_check, tries) around a function that always *)
(* produces the same sequence, and the consumption of the iter_retry it    *)
(* returns by a for loop, which stops at the first exception it gets.      *)
(* Every call of the function and every next() of the iterator it returned *)
(* may raise exc_check.  rpc is "wrapper" in the loop of the wrapper,      *)
(* "iter" when the consumer is about to call next(), "renext" when         *)
(* __next__ is about to call itself, "value" when the function returned a  *)
(* simple value, "stopped" after StopIteration and "unavailable" after     *)
(* BrowserUnavailable, "exc_check" or "other" after that exception reached *)
(* the caller.                                                             *)

DefaultTries == 4
MaxItems == 3

Runs == IF consistent THEN {produced} ELSE SeqsUpTo({"a", "b"}, MaxItems)

Exceptions == {"exc_check", "other"}

RetryStart ==
    /\ tries \in 1..DefaultTries
    /\ calls = 0 /\ recalls = 0 /\ remaining = tries
    /\ it = -1 /\ items = <<>> /\ received = <<>>
    /\ rpc = "wrapper"
    /\ current = <<>> /\ events = <<>>
    /\ BrowserOff /\ MatchOff /\ LockOff /\ FilterOff /\ BpOff

RetryInit ==
    /\ RetryStart
    /\ consistent = TRUE
    /\ produced \in SeqsUpTo({"a", "b"}, MaxItems)

(* `except Exception` in the place of `except exc_check` *)
CatchesAll(e) == TRUE

(* `except exc_check` *)
Caught(e) == e = "exc_check"

(* iter_retry created with the `tries` of the decorator *)
RemainingIsTries(i) == tries

(* iter_retry(cb, value=ret, remaining=i, ...) *)
RemainingAtReturn(i) == i

(* one turn of `for i in range(tries, 0, -1)` in the wrapper *)
WrapperCall ==
    /\ rpc = "wrapper" /\ remaining >= 1
    /\ calls' = calls + 1
    /\ \/ \E e \in Exceptions :                              \* cb() raises e
            /\ events' = Append(events, <<"call", e>>)
            /\ IF Caught(e)
               THEN /\ remaining' = remaining - 1            \* continue
                    /\ rpc' = IF remaining = 1 THEN "unavailable" ELSE "wrapper"
               ELSE rpc' = e /\ UNCHANGED remaining
            /\ UNCHANGED <<it, current>>
       \/ rpc' = "value" /\ UNCHANGED <<remaining, it, current, events>>   \* return ret
       \/ \E cur \in Runs :                                  \* return iter_retry(...)
            /\ current' = cur
            /\ rpc' = "iter"
            /\ it' = 0
            /\ remaining' = RemainingAtReturn(remaining)
            /\ UNCHANGED events
    /\ UNCHANGED <<tries, produced, consistent, recalls, items, received,
                   vars, faultCap, matchVars, lockVars, filterVars, bpVars>>

(* a recreated iterator that is used from its start *)
NoReplay(sent, cur) == 0

(* a recreated iterator that is advanced past the items sent, uncompared *)
SeekOnly(sent, cur) == IF Len(sent) <= Len(cur) THEN Len(sent) ELSE -1

(* the replay of a recreated iterator: next(self.it) for each item already *)
(* sent; the position it is left at, -1 when an item differs or is missing *)
Replay(sent, cur) ==
    IF Len(sent) <= Len(cur) /\ \A k \in 1..Len(sent) : sent[k] = cur[k]
    THEN Len(sent) ELSE -1

(* next(self.it) raises e: `except self.exc_check` sets self.it = None,    *)
(* takes one from self.remaining and returns next(self); anything else     *)
(* leaves __next__                                                         *)
Raised(e) ==
    /\ events' = Append(events, <<"next", e>>)
    /\ IF Caught(e)
       THEN it' = -1 /\ remaining' = remaining - 1 /\ rpc' = "renext"
       ELSE rpc' = e /\ UNCHANGED <<it, remaining>>
    /\ UNCHANGED <<items, received>>

(* `return one item` with the iterator of the run cur at position pos *)
OneItem(pos, cur) ==
    \/ \E e \in Exceptions : Raised(e)
    \/ /\ pos < Len(cur)
       /\ it' = pos + 1
       /\ items' = Append(items, cur[pos + 1])
       /\ received' = Append(received, cur[pos + 1])
       /\ rpc' = "iter"
       /\ UNCHANGED <<remaining, events>>
    \/ /\ pos = Len(cur)                                     \* StopIteration
       /\ it' = pos
       /\ rpc' = "stopped"
       /\ UNCHANGED <<remaining, items, received, events>>

(* iter_retry.__next__ *)
IterNext ==
    /\ rpc \in {"iter", "renext"}
    /\ IF remaining <= 0
       THEN /\ rpc' = "unavailable"
            /\ UNCHANGED <<recalls, remaining, it, items, received, current, events>>
       ELSE IF it = -1
            THEN /\ recalls' = recalls + 1                   \* self.it = self.cb()
                 /\ \/ \E e \in Exceptions :                 \* cb() raises: no try around it
                         /\ rpc' = e
                         /\ events' = Append(events, <<"recall", e>>)
                         /\ UNCHANGED <<remaining, it, items, received, current>>
                    \/ \E cur \in Runs :
                         /\ current' = cur
                         /\ \/ /\ items # <<>>               \* the replay raises e
                               /\ \E e \in Exceptions : Raised(e)
                            \/ IF Replay(items, cur) = -1
                               THEN /\ rpc' = "unavailable"
                                    /\ it' = 0
                                    /\ events' = Append(events, <<"replay", "inconsistent">>)
                                    /\ UNCHANGED <<remaining, items, received>>
                               ELSE OneItem(Replay(items, cur), cur)
            ELSE OneItem(it, current) /\ UNCHANGED <<recalls, current>>
    /\ UNCHANGED <<tries, produced, consistent, calls, vars, faultCap, matchVars, lockVars, filterVars, bpVars>>

RetryNext == WrapperCall \/ IterNext

SpecRetry == RetryInit /\ [][RetryNext]_<<vars, lib>>

(* the same wrapper around a function whose calls need not agree *)
ReplayInit == RetryStart /\ consistent = FALSE /\ produced = <<>>

SpecReplay == ReplayInit /\ [][RetryNext]_<<vars, lib>>

----------------------------------------------------------------------------
(* banquepopulaire's no_need_login: the wrapper adds one to                *)
(* browser.no_login, calls the function and takes one off in a `finally`.  *)
(* A wrapped function may call wrapped functions, and returns or raises.   *)

MaxNest == 4

Wrapped == {"f", "g", "h"}

NoLoginInit ==
    /\ no_login = 0 /\ nlstack = <<>> /\ finished = NoCall
    /\ BrowserOff /\ MatchOff /\ LockOff /\ FilterOff /\ RetryOff /\ OtpOff

(* a wrapper that takes one off only when the function returned *)
DecrementOnReturn(how) == IF how = "return" THEN no_login - 1 ELSE no_login

(* finally: browser.no_login -= 1 *)
Decrement(how) == no_login - 1

(* browser.no_login += 1, then func(browser, ...) starts *)
WrapperEnter(f) ==
    /\ Len(nlstack) < MaxNest
    /\ no_login' = no_login + 1
    /\ nlstack' = Append(nlstack, [func |-> f, saved |-> no_login])
    /\ UNCHANGED <<finished, otpVars, vars, faultCap, matchVars, lockVars, filterVars, retryVars>>

(* func returned or raised: the finally clause, then the wrapper is left *)
WrapperLeave(how) ==
    /\ nlstack # <<>>
    /\ no_login' = Decrement(how)
    /\ nlstack' = SubSeq(nlstack, 1, Len(nlstack) - 1)
    /\ finished' = [func |-> nlstack[Len(nlstack)].func,
                    before |-> nlstack[Len(nlstack)].saved,
                    after |-> no_login', how |-> how]
    /\ UNCHANGED <<otpVars, vars, faultCap, matchVars, lockVars, filterVars, retryVars>>

NoLoginNext ==
    \/ \E f \in Wrapped : WrapperEnter(f)
    \/ \E how \in {"return", "raise"} : WrapperLeave(how)

SpecNoLogin == NoLoginInit /\ [][NoLoginNext]_<<vars, lib>>

----------------------------------------------------------------------------
(* banquepopulaire's login with a one-time password.  init_login starts an *)
(* authentication, numbered from 1, whose validation the attributes        *)
(* validation_id and mfa_validation_data keep; handle_2fa_otp, reached     *)
(* through handle_sms or handle_emv when the user gives a code, sends them *)
(* back with the code.  Both are saved with the state of the session, so   *)
(* they outlive the call that set them.                                    *)

MaxLogins == 2

StatusCodes == {400, 403, 500}
ErrorCodes == {0, 104, 105, 106}

OtpInit ==
    /\ validation_id = 0 /\ mfa_validation_data = 0
    /\ authentification_data = "unset"
    /\ nlogin = 0 /\ rejected = {} /\ submitted = NoSubmit /\ otpResult = "none"
    /\ BrowserOff /\ MatchOff /\ LockOff /\ FilterOff /\ RetryOff /\ NoLoginOff

(* do_new_login reads a validation id; then either the second factor is   *)
(* still valid and init_login ends logged in, or the validation data are   *)
(* kept and a question for the code is raised                              *)
InitLogin ==
    /\ nlogin < MaxLogins
    /\ nlogin' = nlogin + 1
    /\ \/ /\ validation_id' = 0
          /\ otpResult' = "logged"
          /\ UNCHANGED mfa_validation_data
       \/ /\ validation_id' = nlogin + 1
          /\ mfa_validation_data' = nlogin + 1
          /\ otpResult' \in {"SentOTPQuestion", "OfflineOTPQuestion"}
    /\ UNCHANGED <<authentification_data, rejected, submitted,
                   noLoginVars, vars, faultCap, matchVars, lockVars, filterVars, retryVars>>

(* the except clause for the codes 104, 105 and 106: what it leaves in     *)
(* validation_id and mfa_validation_data                                   *)
KeptOnExpiry == <<validation_id, mfa_validation_data>>

(* handle_2fa_otp(otp_type) *)
Handle2faOtp(otp_type) ==
    /\ IF mfa_validation_data = 0
       THEN /\ otpResult' = "BrowserIncorrectPassword: expired"
            /\ UNCHANGED <<validation_id, mfa_validation_data, authentification_data,
                           rejected, submitted>>
       ELSE /\ submitted' = [unit |-> mfa_validation_data, id |-> validation_id,
                             type |-> otp_type]
            /\ \/ \E status \in StatusCodes, code \in ErrorCodes :   \* ClientError, ServerError
                    IF status \in {400, 500} /\ code \in {104, 105, 106}
                    THEN /\ authentification_data' = "empty"
                         /\ validation_id' = KeptOnExpiry[1]
                         /\ mfa_validation_data' = KeptOnExpiry[2]
                         /\ rejected' = rejected \cup {mfa_validation_data}
                         /\ otpResult' = "BrowserIncorrectPassword: failed"
                    ELSE /\ otpResult' = "error"
                         /\ UNCHANGED <<validation_id, mfa_validation_data,
                                        authentification_data, rejected>>
               \/ /\ mfa_validation_data' = 0
                  /\ \/ validation_id' = 0 /\ otpResult' = "logged"
                     \/ otpResult' = "login_errors" /\ UNCHANGED validation_id
                  /\ UNCHANGED <<authentification_data, rejected>>
    /\ UNCHANGED <<nlogin, noLoginVars, vars, faultCap, matchVars, lockVars, filterVars, retryVars>>

OtpNext ==
    \/ InitLogin
    \/ \E otp_type \in {"SMS", "EMV"} : Handle2faOtp(otp_type)

SpecOtp == OtpInit /\ [][OtpNext]_<<vars, lib>>

----------------------------------------------------------------------------
(* Vocabulary of the properties *)

Done == stack = <<>> /\ result.op # "none"
DoneOp(op) == Done /\ result.op = op
Running(op) == stack # <<>> /\ stack[1].pc = op

(* number of login() invocations that are running *)
LoginDepth == Cardinality({i \in DOMAIN stack : stack[i].fn = "login"})

(* every network request of the operation failed with a transient error *)
AllTransient == requests > 0 /\ httpErrs = requests

(* the last network request of the operation failed *)
LastFailed == last.kind \in {"URLError", "HTTPError404", "BrowserStateError"}

(* the last response of the operation has a URL that no key of PAGES matches *)
LastUnmatched == last.kind = "ok" /\ Dispatch(last.url) = 0

(* the class of the first binding, in declaration order, whose key matches *)
FirstDeclared(url) ==
    LET hits == {k \in 1..Len(PAGES) : KeyMatches(PAGES[k].key, url)}
    IN PAGES[CHOOSE k \in hits : \A m \in hits : k <= m].value

Credential(e) == IsA(e, "BrowserIncorrectPassword")

----------------------------------------------------------------------------
(* C1: with a password and a login() that succeeds, a location() whose     *)
(* first response is logged out calls login() exactly once, re-issues the  *)
(* navigation exactly once and ends on the page of the re-issued           *)
(* navigation.                                                             *)
C1_ReloginRetriesOnce ==
    (DoneOp("location") /\ result.outcome = "ok" /\ password # None
        /\ Faults = 0 /\ loginCalls >= 1)
    => (loginCalls = 1 /\ reissues = 1 /\ (page = NoPage \/ page.via = "retry"))

(* C2: login() invocations never nest: at most one is running. *)
C2_NoNestedLogin == LoginDepth <= 1

(* C3: a navigation that location re-issued on a retry signal is not       *)
(* re-issued again when a retry signal is raised during it.                *)
C3_AtMostOneReissue ==
    \A i \in DOMAIN stack :
        ~(stack[i].fn = "location" /\ stack[i].role = "retry" /\ stack[i].pc = "reissued")

(* C4: the class of the current page is the one of the first binding, in   *)
(* declaration order, whose pattern matches the URL of the page.           *)
C4_FirstDeclaredWins == page # NoPage => page.cls = FirstDeclared(page.url)

(* C5, as claimed: location never returns normally with no current page.   *)
C5_NoMatchIsFailure == (DoneOp("location") /\ result.outcome = "ok") => page # NoPage

(* C5, amended: when the last response of a location() matches no binding, *)
(* the current page is None when the call ends, and the call returns       *)
(* normally unless the unmatched response was the one of a login().        *)
C5_NoMatchLeavesNoPage ==
    (DoneOp("location") /\ LastUnmatched)
    => (page = NoPage /\ (loginCalls = 0 => result.outcome = "ok"))

C5_Witness ==
    DoneOp("location") /\ LastUnmatched /\ loginCalls = 0 /\ page = NoPage /\ result.outcome = "ok"

(* C6: a location() all of whose network requests fail with a transient    *)
(* transport error makes at most three requests, and ends after the third  *)
(* by raising BrowserHTTPError, a kind of BrowserUnavailable.              *)
C6_TransientRetryBound ==
    /\ (Running("location") /\ AllTransient) => requests <= 3
    /\ (DoneOp("location") /\ AllTransient)
          => (requests = 3 /\ result.outcome = "BrowserHTTPError"
              /\ IsA(result.outcome, "BrowserUnavailable") /\ page = NoPage)

C6_Witness ==
    DoneOp("location") /\ AllTransient /\ requests = 3 /\ result.outcome = "BrowserHTTPError"

(* C7, as claimed: a constructor, location, openurl or readurl whose last  *)
(* network request failed ends with an error for its caller.               *)
C7_NoFailureSwallowed ==
    (Done /\ result.op \in {"__init__", "location", "openurl", "readurl"} /\ LastFailed)
    => result.outcome # "ok"

(* C7, amended: a location, or an openurl with if_fail='raise', whose last *)
(* request failed ends with an error; the constructor never ends with      *)
(* BrowserUnavailable and ends normally when its last request failed; an   *)
(* openurl with another if_fail, which is what readurl makes, returns None *)
(* when its request fails with a transport error.                          *)
C7_FailurePropagation ==
    /\ (DoneOp("location") /\ LastFailed) => result.outcome # "ok"
    /\ (DoneOp("openurl") /\ result.if_fail = "raise" /\ LastFailed) => result.outcome # "ok"
    /\ DoneOp("__init__") => ~IsA(result.outcome, "BrowserUnavailable")
    /\ (DoneOp("__init__") /\ LastFailed) => result.outcome = "ok"
    /\ (Done /\ result.op \in {"openurl", "readurl"} /\ result.if_fail # "raise"
          /\ last.kind \in TransportErrors /\ stateErrs = 0)
          => (result.outcome = "ok" /\ result.ret = None)

C7_Witness ==
    DoneOp("readurl") /\ last.kind = "URLError" /\ stateErrs = 0
        /\ result.outcome = "ok" /\ result.ret = None

(* C8: once login() has raised BrowserIncorrectPassword or BrowserBanned,  *)
(* no except clause stops it: until the caller gets it, there is no        *)
(* further network request, login() or re-issued navigation.               *)
C8_CredentialErrorPropagates ==
    [][Credential(exc) =>
          /\ loginCalls' = loginCalls /\ requests' = requests /\ reissues' = reissues
          /\ IF stack' = <<>> THEN result'.outcome = exc ELSE exc' = exc]_vars

C8_Witness ==
    DoneOp("location") /\ Credential(result.outcome) /\ loginCalls = 1 /\ reissues = 0

(* C9: on_loaded has been called exactly once on the current page whenever *)
(* code outside _change_location (login(), the caller) can see it.         *)
C9_OnLoadedOnce == page # NoPage => page.loaded = 1

(* C10: without a password neither is_logged() nor login() is ever called; *)
(* login() is called only with a password, on a page that is not logged   *)
(* in, by a _change_location that was not told no_login.                   *)
C10_NoLoginWithoutPassword ==
    /\ [](password = None => (~authCalled /\ loginCalls = 0 /\ LoginDepth = 0))
    /\ [][loginCalls' > loginCalls =>
            /\ password # None /\ ~IsLogged(page')
            /\ \E i \in DOMAIN stack' :
                  /\ stack'[i].fn = "_change_location" /\ ~stack'[i].no_login
                  /\ i + 1 \in DOMAIN stack' /\ stack'[i + 1].fn = "login"
                  /\ \A j \in DOMAIN stack' : j > i + 1 => stack'[j].fn # "login"]_vars

C10_Witness ==
    password = None /\ Done /\ result.op \in {"location", "submit", "follow_link"}
        /\ result.outcome = "ok" /\ page # NoPage /\ page.cls = "LoginPage"

(* C11: a key matches a URL only if one of its alternatives matches the    *)
(* whole URL, from its first token to its last one.                        *)
C11_WholeUrlMatch == matchObj = "match" => WholeMatch(pattern, geturl)

(* C12, as claimed: a thread that is inside a navigation holds the lock of *)
(* the browser.                                                            *)
C12_LockHeldWhileNavigating ==
    \A t \in DOMAIN tpc : Navigating(t) => (lockOwner = t /\ lockCount >= 1)

(* C12, amended: a thread that navigates inside `with browser:` holds the  *)
(* lock during the whole navigation, at most one thread is inside such a   *)
(* block, and when every thread calls the browser that way the page a      *)
(* navigation assigned is still the current one until it returns.          *)
C12_LockHeldInsideWith ==
    /\ \A t \in DOMAIN tpc :
          (tmode[t] = "with" /\ tpc[t] # "idle") => (lockOwner = t /\ lockCount >= 1)
    /\ \A t, u \in DOMAIN tpc :
          (t # u /\ tmode[t] = "with" /\ tmode[u] = "with") => (tpc[t] = "idle" \/ tpc[u] = "idle")
    /\ (\A u \in DOMAIN tpc : tmode[u] = "with")
          => \A t \in DOMAIN tpc : tpc[t] = "built" => pageBy = t

C12_Witness ==
    /\ \A u \in DOMAIN tpc : tmode[u] = "with"
    /\ \E t \in DOMAIN tpc : tpc[t] = "built" /\ pageBy = t /\ lockCount = 2
                                /\ \E u \in DOMAIN tpc : u # t

(* C13: with a persistent cookie store, a location() that returns without  *)
(* raising has saved the store during the call.                            *)
C13_CookieSavedOnReturn ==
    (DoneOp("location") /\ result.outcome = "ok" /\ cookie # None) => cookie = "saved"

C15_DefaultOrRaise ==
    (Len(results) = 1 /\ item = "nothing")
    => IF combinator.default # NoDefault
       THEN results[1] = Returns(combinator.default)
       ELSE results[1].kind = "raise"

(* C16: CleanText.filter applied to its own output gives that output.      *)
C16_CleanTextIdempotent == Len(results) = 2 => results[2] = results[1]

(* C17: TableCell returns the cell of the column registered for the first  *)
(* of its names that is registered, column 0 included; when none is, it    *)
(* returns its default, or raises KeyError without one.                    *)
C17_TableCellResolution ==
    Len(results) = 1
    => LET hits == RegisteredAt(combinator, item)
           first == CHOOSE k \in hits : \A m \in hits : k <= m
       IN IF hits = {}
          THEN results[1] = IF combinator.default = NoDefault THEN Raises("KeyError")
                                                              ELSE Returns(combinator.default)
          ELSE results[1] = Returns(Val("td", item.row[item.cols[combinator.names[first]] + 1]))

C17_Witness ==
    /\ Len(results) = 1 /\ Len(combinator.names) = 2
    /\ item.cols[combinator.names[1]] = -1 /\ item.cols[combinator.names[2]] = 0
    /\ results[1] = Returns(Val("td", "td1"))

(* C18: with replace_dots, CleanDecimal gives for a number written in      *)
(* continental format, with up to MaxFracDigits fractional digits, exactly *)
(* the written value: its sign, every digit and the place of the comma;    *)
(* it raises only without a default, and on a text without a digit it      *)
(* returns the Decimal of its default or, without one, raises              *)
(* InvalidOperation.                                                       *)
C18_DecimalExact ==
    (Len(results) = 1 /\ combinator.replace_dots)
    => /\ item.written # NoWritten => results[1] = Returns(WrittenValue(item.written))
       /\ results[1].kind = "raise" => combinator.default = NoDefault
       /\ NoDigit(item.text)
             => results[1] = IF combinator.default = NoDefault
                             THEN Raises("InvalidOperation")
                             ELSE Returns(Dec(0, <<"0">>, 0))

C18_Witness ==
    /\ Len(results) = 1 /\ combinator.replace_dots
    /\ item.text = <<"1", ".", "2", "3", "4", ",", "5", "6">>
    /\ results[1] = Returns(Dec(0, <<"1", "2", "3", "4", "5", "6">>, -2))

(* C19: the decorated function is called at most `tries` times, the calls  *)
(* of the wrapper and those of iter_retry counted together.                *)
C19_CallsBounded == calls + recalls <= tries

C19_Witness ==
    /\ tries = DefaultTries /\ calls + recalls = DefaultTries
    /\ calls >= 2 /\ recalls >= 1 /\ rpc = "stopped"

(* C20: what the consumer received is a prefix of the sequence that the    *)
(* function produces, each element once and in order, and the whole        *)
(* sequence when the iteration ended with StopIteration.                   *)
C20_NoItemTwice ==
    /\ Len(received) <= Len(produced)
    /\ \A k \in 1..Len(received) : received[k] = produced[k]
    /\ rpc = "stopped" => received = produced

C20_Witness ==
    rpc = "stopped" /\ recalls >= 2 /\ Len(produced) >= 2 /\ received = produced

(* C21: only exc_check is retried.  An exception of another type, raised   *)
(* by a call or by the iteration, is the last thing the function did and   *)
(* is what the caller gets; the function is called once more only after an *)
(* exc_check; and when each of the `tries` calls of the wrapper raised     *)
(* exc_check the caller gets BrowserUnavailable.                           *)
C21_OnlyExcCheckRetried ==
    /\ \A k \in 1..Len(events) :
          events[k][2] = "other" => k = Len(events) /\ rpc = "other"
    /\ calls + recalls <= 1 + Cardinality({k \in 1..Len(events) : events[k][2] = "exc_check"})
    /\ (Len(events) = tries /\ \A k \in 1..Len(events) : events[k] = <<"call", "exc_check">>)
          => rpc = "unavailable"

C21_Witness ==
    /\ rpc = "other" /\ received # <<>> /\ recalls >= 1
    /\ events[Len(events)] = <<"next", "other">>

(* C22: when __next__ recreated the iterator and its replay ended without  *)
(* an exception of the function, a new run that does not start with the    *)
(* items already delivered makes that next() raise BrowserUnavailable and  *)
(* deliver nothing.                                                        *)
C22_InconsistentRunRejected ==
    [][(/\ recalls' = recalls + 1
        /\ rpc' \in {"iter", "stopped", "unavailable"}
        /\ ~(/\ Len(items) <= Len(current')
             /\ \A k \in 1..Len(items) : items[k] = current'[k]))
       => (rpc' = "unavailable" /\ received' = received /\ items' = items)]_<<vars, lib>>

C22_Witness ==
    /\ rpc = "unavailable" /\ Len(received) >= 2 /\ Len(current) >= Len(received)
    /\ events[Len(events)] = <<"replay", "inconsistent">>

(* C23: browser.no_login is never negative, is positive exactly while a    *)
(* wrapped call is in progress, and after a wrapped call returned or       *)
(* raised it is what it was before that call.                              *)
C23_NoLoginBalanced ==
    /\ no_login >= 0
    /\ (no_login > 0) <=> (nlstack # <<>>)
    /\ finished.how # "none" => finished.after = finished.before

C23_Witness ==
    /\ finished.how = "raise" /\ finished.before = 2
    /\ Len(nlstack) = 2 /\ no_login = 2

(* C24: after handle_2fa_otp failed on the code 104, 105 or 106 the stored *)
(* validation_id and mfa_validation_data are cleared, and a validation the *)
(* site answered that way is never sent again.                             *)
C24_StaleMfaDataCleared ==
    /\ otpResult = "BrowserIncorrectPassword: failed"
          => validation_id = 0 /\ mfa_validation_data = 0
    /\ submitted.unit \in rejected => otpResult = "BrowserIncorrectPassword: failed"

(* C25: during one call of location by the caller, login() is invoked at  *)
(* most once, also when the only faults of the call are transient          *)
(* transport errors, which make the retry wrapper run location again.      *)
C25_LoginAtMostOnce ==
    ((Running("location") \/ DoneOp("location")) /\ stateErrs = 0 /\ hookRetries = 0)
    => loginCalls <= 1

(* C27: when a location, a submit or a follow_link ends with the error of  *)
(* a failed request, BrowserHTTPError or BrowserHTTPNotFound, there is no  *)
(* current page.                                                           *)
C27_NoPageAfterTransportError ==
    (Done /\ result.op \in {"location", "submit", "follow_link"}
          /\ result.outcome \in {"BrowserHTTPError", "BrowserHTTPNotFound"})
    => page = NoPage

C27_Witness ==
    /\ DoneOp("follow_link") /\ result.outcome = "BrowserHTTPNotFound"
    /\ requests = 1 /\ page = NoPage

(* C28: a submit or a follow_link during which login() was called does not *)
(* end with BrowserUnavailable.                                            *)
C28_ReloginThenResult ==
    (Done /\ result.op \in {"submit", "follow_link"} /\ loginCalls >= 1 /\ Faults = 0)
    => result.outcome # "BrowserUnavailable"

StateHandlers ==
    Cardinality({i \in DOMAIN stack :
                    stack[i].fn = "location" /\ stack[i].pc \in {"home", "relocated"}})

(* C26: the requests of a call of location are bounded whatever the        *)
(* transport does: a BrowserStateError met by a location that runs for the *)
(* handler of an earlier one, in its home() or in the navigation made      *)
(* again, does not start another home() and another navigation.            *)
C26_StateErrorHandledOnce == StateHandlers <= 1

====
